---- MODULE Spec2Model ----
(***************************************************************************)
(* Model of the Synapse client: the App component (src/App.tsx 6-67) and   *)
(* the GeminiLiveSession streaming engine (src/App.tsx 205-430).           *)
(*                                                                         *)
(* One step of the model is one turn of the browser's event loop (a tap, a *)
(* device or channel callback, a timer tick, the resumption of an await)   *)
(* or one promise reaction (microtask).  Microtasks queued by a turn run   *)
(* before any other turn: every turn is guarded by micro = <<>>.           *)
(***************************************************************************)
EXTENDS Integers, Sequences, FiniteSets, TLC

\* ---------------------------------------------------------------- bounds
NumSessions == 2      \* GeminiLiveSession objects the client creates
MaxMsgs     == 3      \* inbound channel messages delivered (all sessions)
MaxTicks    == 2      \* video timer ticks that capture a frame (all sessions)
MaxAudio    == 1      \* onaudioprocess events (all sessions)
MaxClock    == 2      \* last instant of the output clock
MaxFail     == 1      \* teardown calls that throw

Sessions == 1..NumSessions
MsgIds   == 1..MaxMsgs
TickIds  == 1..MaxTicks
Tracks   == {"audio", "video"}
Durations == {1, 2}   \* sample durations of a decoded segment, in clock units

\* The teardown step of stop()/stopAllAudio() that fails in a call (at most one).
FailSteps == {"none", "source", "inputCtx", "outputCtx", "audioTrack", "videoTrack", "channel"}

VARIABLES
  \* App (React state and refs)
  apiKey,              \* process.env.API_KEY is set
  status,              \* ConnectionStatus shown by the client
  error,               \* error string shown by the client ("" = null)
  sessionRef,          \* sessionRef.current: a session, or 0 for null
  created,             \* number of GeminiLiveSession objects constructed
  heard,               \* the onTranscription calls received, in order: <<message, role>>
  safetyAlert,         \* the message whose text is shown as safety alert, or 0 for null
  alertTimers,         \* pending setTimeout(() => setSafetyAlert(null), 6000), oldest first
  \* GeminiLiveSession fields, per session (TRUE = non-null)
  isStopping,
  inputAudioContext,
  outputAudioContext,
  activeStream,
  activeSession,
  sessionPromise,
  frameInterval,
  sources,             \* live playback handles (message ids)
  nextStartTime,
  \* position of async start() and the objects the session talks to
  pc,                  \* "new" | "getUserMedia" | "play" | "returned" | "failed"
  inputCtxState,       \* "none" | "running" | "closed" | "closeFailed"
  outputCtxState,
  tracks,              \* per track: "none" | "live" | "stopped" | "stopFailed"
  chan,                \* remote channel: "none" | "connecting" | "open" | "erred" | "closed" | "failed"
  closeCalled,         \* activeSession.close(): "no" | "ok" | "threw"
  promise,             \* the connect promise: "none" | "pending" | "resolved" | "rejected"
  thenReg,             \* onopen's .then reaction is registered on the pending promise
  audioOn,             \* scriptProcessor.onaudioprocess is installed
  segs,                \* per inbound message: its audio segment / playback handle
  frames,              \* per capturing tick: the frame's stage
  micro,               \* microtask queue: promise reactions not yet run
  sent,                \* per session: what sendRealtimeInput was called with, in order
  clock,               \* outputAudioContext.currentTime
  nMsgs,
  nAudio,
  \* history
  opened,              \* onopen was delivered (the session reported ACTIVE)
  lastEnd,             \* end time of the last segment scheduled since the last halt, or -1
  cut,                 \* an interruption ran and no segment was scheduled since
  stale                \* segments whose decode was pending when their session was interrupted

alertVars == <<heard, safetyAlert, alertTimers>>
appVars   == <<apiKey, status, error, sessionRef, created, alertVars>>
fieldVars == <<isStopping, inputAudioContext, outputAudioContext, activeStream,
               activeSession, sessionPromise, frameInterval, sources, nextStartTime>>
worldVars == <<pc, inputCtxState, outputCtxState, tracks, chan, closeCalled, promise,
               thenReg, audioOn, segs, frames, micro, sent, clock, nMsgs, nAudio>>
histVars  == <<opened, lastEnd, cut, stale>>
vars      == <<appVars, fieldVars, worldVars, histVars>>

Max(a, b) == IF a >= b THEN a ELSE b

NoSeg   == [sess |-> 0, st |-> "none", dur |-> 0, ok |-> TRUE, start |-> -1]
NoFrame == [sess |-> 0, st |-> "none"]

Init ==
  /\ apiKey \in BOOLEAN
  /\ status = "IDLE"
  /\ error = ""
  /\ sessionRef = 0
  /\ created = 0
  /\ heard = <<>>
  /\ safetyAlert = 0
  /\ alertTimers = <<>>
  /\ isStopping = [s \in Sessions |-> FALSE]
  /\ inputAudioContext = [s \in Sessions |-> FALSE]
  /\ outputAudioContext = [s \in Sessions |-> FALSE]
  /\ activeStream = [s \in Sessions |-> FALSE]
  /\ activeSession = [s \in Sessions |-> FALSE]
  /\ sessionPromise = [s \in Sessions |-> FALSE]
  /\ frameInterval = [s \in Sessions |-> FALSE]
  /\ sources = [s \in Sessions |-> {}]
  /\ nextStartTime = [s \in Sessions |-> 0]
  /\ pc = [s \in Sessions |-> "new"]
  /\ inputCtxState = [s \in Sessions |-> "none"]
  /\ outputCtxState = [s \in Sessions |-> "none"]
  /\ tracks = [s \in Sessions |-> [t \in Tracks |-> "none"]]
  /\ chan = [s \in Sessions |-> "none"]
  /\ closeCalled = [s \in Sessions |-> "no"]
  /\ promise = [s \in Sessions |-> "none"]
  /\ thenReg = [s \in Sessions |-> FALSE]
  /\ audioOn = [s \in Sessions |-> FALSE]
  /\ segs = [h \in MsgIds |-> NoSeg]
  /\ frames = [k \in TickIds |-> NoFrame]
  /\ micro = <<>>
  /\ sent = [s \in Sessions |-> <<>>]
  /\ clock = 0
  /\ nMsgs = 0
  /\ nAudio = 0
  /\ opened = [s \in Sessions |-> FALSE]
  /\ lastEnd = [s \in Sessions |-> -1]
  /\ cut = [s \in Sessions |-> FALSE]
  /\ stale = {}

\* ------------------------------------------------------------ stopAllAudio
\* A segment that is over keeps its session and how it ended.
Done(h, how) == [NoSeg EXCEPT !.sess = segs[h].sess, !.st = how]

\* sources.forEach(s => { try { s.stop() } catch {} }): every live handle is
\* halted; the one whose stop() throws (failH, 0 for none) stays as it is.
HaltAll(s, failH) ==
  [h \in MsgIds |->
     IF h \in sources[s]
       THEN Done(h, IF h = failH THEN "haltFailed" ELSE "halted")
       ELSE segs[h]]

\* Mutant: stopAllAudio() that leaves the cursor where it was.
ResetCursorKept(s) == nextStartTime[s]

\* The value stopAllAudio() leaves in nextStartTime.
ResetCursor(s) == 0

FailedHandle(s, fail) ==
  IF fail = "source" /\ sources[s] # {} THEN CHOOSE h \in sources[s] : TRUE ELSE 0

\* The teardown calls that have thrown so far.
Failures ==
  Cardinality({h \in MsgIds : segs[h].st = "haltFailed"})
  + Cardinality({s \in Sessions : inputCtxState[s] = "closeFailed"})
  + Cardinality({s \in Sessions : outputCtxState[s] = "closeFailed"})
  + Cardinality({s \in Sessions : \E t \in Tracks : tracks[s][t] = "stopFailed"})
  + Cardinality({s \in Sessions : closeCalled[s] = "threw"})

\* The call named by fail is one the teardown of s makes.
Applicable(s, fail) ==
  CASE fail = "source"     -> sources[s] # {}
    [] fail = "inputCtx"   -> inputAudioContext[s] /\ inputCtxState[s] # "closed"
    [] fail = "outputCtx"  -> outputAudioContext[s] /\ outputCtxState[s] # "closed"
    [] fail = "audioTrack" -> activeStream[s]
    [] fail = "videoTrack" -> activeStream[s]
    [] fail = "channel"    -> activeSession[s]
    [] OTHER               -> FALSE

\* A step in which a teardown call throws: at most MaxFail of them in a run.
Fails(s, fail) ==
  fail # "none" => (s # 0 /\ Applicable(s, fail) /\ Failures < MaxFail)

\* ------------------------------------------------------------------ stop()
\* ctx.close().catch(() => {}): a rejected close is swallowed.
CloseCtx(field, state, failed) ==
  IF field /\ state # "closed"
    THEN (IF failed THEN "closeFailed" ELSE "closed")
    ELSE state

\* Mutant: a context whose close() throws ends stop() before the tracks.
StopTracksAborted(s, fail) ==
  IF activeStream[s] /\ fail \notin {"inputCtx", "outputCtx"}
    THEN [t \in Tracks |->
            IF (t = "audio" /\ fail = "audioTrack") \/ (t = "video" /\ fail = "videoTrack")
              THEN "stopFailed" ELSE "stopped"]
    ELSE tracks[s]

\* getTracks().forEach(track => { try { track.stop(); ... } catch {} })
StopTracks(s, fail) ==
  IF activeStream[s]
    THEN [t \in Tracks |->
            IF (t = "audio" /\ fail = "audioTrack") \/ (t = "video" /\ fail = "videoTrack")
              THEN "stopFailed" ELSE "stopped"]
    ELSE tracks[s]

\* The early return of stop(): TRUE when the call does nothing.
StopReturnsEarly(s) == isStopping[s]

\* stop() on session s; fail names the teardown step that throws, if any.
Stop(s, fail) ==
  IF StopReturnsEarly(s)
    THEN UNCHANGED <<fieldVars, inputCtxState, outputCtxState, tracks,
                     closeCalled, segs, lastEnd, cut, stale>>
    ELSE
      /\ isStopping' = [isStopping EXCEPT ![s] = TRUE]
      /\ frameInterval' = [frameInterval EXCEPT ![s] = FALSE]
      /\ segs' = HaltAll(s, FailedHandle(s, fail))
      /\ sources' = [sources EXCEPT ![s] = {}]
      /\ nextStartTime' = [nextStartTime EXCEPT ![s] = ResetCursor(s)]
      /\ lastEnd' = [lastEnd EXCEPT ![s] = -1]
      /\ cut' = cut
      /\ stale' = stale
      /\ inputCtxState' = [inputCtxState EXCEPT ![s] =
            CloseCtx(inputAudioContext[s], inputCtxState[s], fail = "inputCtx")]
      /\ inputAudioContext' = [inputAudioContext EXCEPT ![s] = FALSE]
      /\ outputCtxState' = [outputCtxState EXCEPT ![s] =
            CloseCtx(outputAudioContext[s], outputCtxState[s], fail = "outputCtx")]
      /\ outputAudioContext' = [outputAudioContext EXCEPT ![s] = FALSE]
      /\ tracks' = [tracks EXCEPT ![s] = StopTracks(s, fail)]
      /\ activeStream' = [activeStream EXCEPT ![s] = FALSE]
      /\ closeCalled' = [closeCalled EXCEPT ![s] =
            IF activeSession[s] THEN (IF fail = "channel" THEN "threw" ELSE "ok") ELSE @]
      /\ activeSession' = [activeSession EXCEPT ![s] = FALSE]
      /\ sessionPromise' = [sessionPromise EXCEPT ![s] = FALSE]

\* The variables stop() may write.
stopVars == <<fieldVars, inputCtxState, outputCtxState, tracks, closeCalled, segs,
              lastEnd, cut, stale>>

\* ------------------------------------------------------------------- App
\* handleStart with no API key: only the error is set.
HandleStartNoAuth ==
  /\ micro = <<>>
  /\ status # "ACTIVE"
  /\ ~apiKey
  /\ error' = "SYSTEM: HARDWARE OR AUTH FAILURE."
  /\ UNCHANGED <<apiKey, status, sessionRef, created, alertVars, fieldVars, worldVars,
                 histVars>>

\* toggleConnection -> handleStart: a new session is constructed and start()
\* runs up to its first await (getUserMedia).
HandleStart ==
  /\ micro = <<>>
  /\ status # "ACTIVE"
  /\ apiKey
  /\ created < NumSessions
  /\ LET s == created + 1 IN
       /\ status' = "CONNECTING"
       /\ error' = ""
       /\ created' = s
       /\ sessionRef' = s
       /\ isStopping' = [isStopping EXCEPT ![s] = FALSE]
       /\ inputAudioContext' = [inputAudioContext EXCEPT ![s] = TRUE]
       /\ outputAudioContext' = [outputAudioContext EXCEPT ![s] = TRUE]
       /\ inputCtxState' = [inputCtxState EXCEPT ![s] = "running"]
       /\ outputCtxState' = [outputCtxState EXCEPT ![s] = "running"]
       /\ pc' = [pc EXCEPT ![s] = "getUserMedia"]
  /\ UNCHANGED <<apiKey, alertVars, activeStream, activeSession, sessionPromise, frameInterval,
                 sources, nextStartTime, tracks, chan, closeCalled, promise, thenReg,
                 audioOn, segs, frames, micro, sent, clock, nMsgs, nAudio, histVars>>

\* toggleConnection -> handleStop (status ACTIVE).
HandleStop(fail) ==
  /\ micro = <<>>
  /\ status = "ACTIVE"
  /\ Fails(sessionRef, fail)
  /\ fail # "none" => ~isStopping[sessionRef]
  /\ IF sessionRef # 0 THEN Stop(sessionRef, fail) ELSE UNCHANGED stopVars
  /\ sessionRef' = 0
  /\ status' = "IDLE"
  /\ safetyAlert' = 0
  /\ UNCHANGED <<apiKey, error, created, heard, alertTimers, pc, chan, promise, thenReg,
                 audioOn, frames,
                 micro, sent, clock, nMsgs, nAudio, opened>>

\* stop() called by the owner of the session object at any time after start().
StopCall(s, fail) ==
  /\ micro = <<>>
  /\ pc[s] # "new"
  /\ Fails(s, fail)
  /\ fail # "none" => ~isStopping[s]
  /\ Stop(s, fail)
  /\ UNCHANGED <<appVars, pc, chan, promise, thenReg, audioOn, frames, micro, sent,
                 clock, nMsgs, nAudio, opened>>

\* The first tap: the client's first session.
FirstStart == created = 0 /\ HandleStart

\* ------------------------------------------------------------ start()
\* getUserMedia resolves: this.activeStream = stream; start() awaits play().
MediaGranted(s) ==
  /\ micro = <<>>
  /\ pc[s] = "getUserMedia"
  /\ activeStream' = [activeStream EXCEPT ![s] = TRUE]
  /\ tracks' = [tracks EXCEPT ![s] = [t \in Tracks |-> "live"]]
  /\ pc' = [pc EXCEPT ![s] = "play"]
  /\ UNCHANGED <<appVars, isStopping, inputAudioContext, outputAudioContext,
                 activeSession, sessionPromise, frameInterval, sources, nextStartTime,
                 inputCtxState, outputCtxState, chan, closeCalled, promise, thenReg,
                 audioOn, segs, frames, micro, sent, clock, nMsgs, nAudio, histVars>>

\* The catch of start() (onError, onStatusChange('ERROR'), rethrow) followed by the
\* catch of handleStart (setError, setStatus(ERROR)).
StartThrows(s) ==
  /\ pc' = [pc EXCEPT ![s] = "failed"]
  /\ error' = "LINK FAILURE: ACCESS DENIED."
  /\ status' = "ERROR"
  /\ UNCHANGED <<apiKey, sessionRef, created, alertVars, fieldVars, inputCtxState,
                 outputCtxState,
                 tracks, chan, closeCalled, promise, thenReg, audioOn, segs, frames,
                 micro, sent, clock, nMsgs, nAudio, histVars>>

\* getUserMedia rejects (device unavailable or permission denied).
MediaDenied(s) ==
  /\ micro = <<>>
  /\ pc[s] = "getUserMedia"
  /\ StartThrows(s)

\* videoElement.play() rejects.
PlayRejected(s) ==
  /\ micro = <<>>
  /\ pc[s] = "play"
  /\ StartThrows(s)

\* Mutant: start() registers the pipelines' reaction as soon as it connects.
RegistersEarly(s) == TRUE

\* start() registers no reaction on the promise connect() returns.
RegistersAtConnect(s) == FALSE

\* play() resolves: this.sessionPromise = ai.live.connect(...); start() returns.
PlayResolved(s) ==
  /\ micro = <<>>
  /\ pc[s] = "play"
  /\ sessionPromise' = [sessionPromise EXCEPT ![s] = TRUE]
  /\ promise' = [promise EXCEPT ![s] = "pending"]
  /\ chan' = [chan EXCEPT ![s] = "connecting"]
  /\ pc' = [pc EXCEPT ![s] = "returned"]
  /\ thenReg' = [thenReg EXCEPT ![s] = RegistersAtConnect(s)]
  /\ UNCHANGED <<appVars, isStopping, inputAudioContext, outputAudioContext, activeStream,
                 activeSession, frameInterval, sources, nextStartTime, inputCtxState,
                 outputCtxState, tracks, closeCalled, audioOn, segs, frames,
                 micro, sent, clock, nMsgs, nAudio, histVars>>

\* --------------------------------------------------- channel callbacks
\* onopen: onStatusChange('ACTIVE'); this.sessionPromise?.then(...) registers the
\* reaction on the connect promise when the field is set.  On a promise that is
\* already resolved the reaction is queued at once.
OnOpenRegisters(s) == sessionPromise[s]

OnOpen(s) ==
  /\ micro = <<>>
  /\ chan[s] = "connecting"
  /\ chan' = [chan EXCEPT ![s] = "open"]
  /\ status' = "ACTIVE"
  /\ opened' = [opened EXCEPT ![s] = TRUE]
  /\ IF promise[s] = "resolved"
       THEN /\ micro' = IF OnOpenRegisters(s) THEN <<<<"openThen", s, 0>>>> ELSE <<>>
            /\ UNCHANGED thenReg
       ELSE /\ thenReg' = [thenReg EXCEPT ![s] = @ \/ OnOpenRegisters(s)]
            /\ UNCHANGED micro
  /\ UNCHANGED <<apiKey, error, sessionRef, created, alertVars, fieldVars, pc, inputCtxState,
                 outputCtxState, tracks, closeCalled, promise, audioOn, segs, frames,
                 sent, clock, nMsgs, nAudio, lastEnd, cut, stale>>

\* The connect promise resolves with the session object.  The library that owns
\* the promise is not part of the repository: the resolution is an event of its
\* own, before or after the open acknowledgment.  Registered reactions are queued.
ConnectResolved(s) ==
  /\ micro = <<>>
  /\ promise[s] = "pending"
  /\ chan[s] \in {"connecting", "open"} \/ opened[s]
  /\ promise' = [promise EXCEPT ![s] = "resolved"]
  /\ micro' = IF thenReg[s] THEN <<<<"openThen", s, 0>>>> ELSE <<>>
  /\ thenReg' = [thenReg EXCEPT ![s] = FALSE]
  /\ UNCHANGED <<appVars, fieldVars, pc, inputCtxState, outputCtxState, tracks, chan,
                 closeCalled, audioOn, segs, frames, sent, clock, nMsgs, nAudio, histVars>>

\* The connect promise rejects: the channel failed to open.  start() does not
\* await the promise and no reaction is registered before onopen, so nothing runs.
ConnectRejected(s) ==
  /\ micro = <<>>
  /\ promise[s] = "pending"
  /\ chan[s] = "connecting"
  /\ promise' = [promise EXCEPT ![s] = "rejected"]
  /\ chan' = [chan EXCEPT ![s] = "failed"]
  /\ UNCHANGED <<appVars, fieldVars, pc, inputCtxState, outputCtxState, tracks,
                 closeCalled, thenReg, audioOn, segs, frames, micro, sent, clock, nMsgs,
                 nAudio, histVars>>

\* onerror: handlers.onError('SYSTEM LINK FAILURE'); onStatusChange('ERROR').
\* A channel that reported an error delivers nothing more but its close event.
OnError(s) ==
  /\ micro = <<>>
  /\ chan[s] \in {"connecting", "open"}
  /\ chan' = [chan EXCEPT ![s] = "erred"]
  /\ error' = "SYSTEM LINK FAILURE"
  /\ status' = "ERROR"
  /\ UNCHANGED <<apiKey, sessionRef, created, alertVars, fieldVars, pc, inputCtxState,
                 outputCtxState, tracks, closeCalled, promise, thenReg, audioOn, segs,
                 frames, micro, sent, clock, nMsgs, nAudio, histVars>>

\* onclose: onStatusChange('IDLE'); this.stop().
OnClose(s, fail) ==
  /\ micro = <<>>
  /\ chan[s] \in {"connecting", "open", "erred"}
  /\ Fails(s, fail)
  /\ fail # "none" => ~isStopping[s]
  /\ chan' = [chan EXCEPT ![s] = "closed"]
  /\ status' = "IDLE"
  /\ Stop(s, fail)
  /\ UNCHANGED <<apiKey, error, sessionRef, created, alertVars, pc, promise, thenReg, audioOn,
                 frames, micro, sent, clock, nMsgs, nAudio, opened>>

\* ------------------------------------------------------- inbound messages
\* The output clock is read by the step: it shows now, not before its last reading.
Elapses(now) ==
  /\ now \in clock..MaxClock
  /\ clock' = now

\* The guard of onmessage around playAudio, and playAudio's own first line.
PlayGuard(s) ==
  /\ outputAudioContext[s]
  /\ ~isStopping[s]
  /\ outputCtxState[s] # "closed"

\* Mutant: playAudio that restarts the cursor at the clock.
CursorAtClock(s, now) == now

\* playAudio up to its await: this.nextStartTime = Math.max(nextStartTime, currentTime).
CursorAtEntry(s, now) == Max(nextStartTime[s], now)

\* The transcriptions of a message: none, an inputTranscription ("user"), an
\* outputTranscription ("assistant"; "hazard" when its text holds STOP or CAUTION),
\* or both fields.
Transcripts == {"none", "user", "assistant", "hazard", "both", "bothHazard"}

HasOutput(tr) == tr \in {"assistant", "hazard", "both", "bothHazard"}

HasInput(tr) == tr \in {"user", "both", "bothHazard"}

\* upperText.includes("STOP") || upperText.includes("CAUTION")
Hazard(tr) == tr \in {"hazard", "bothHazard"}

\* onmessage: if (outputTranscription) onTranscription(.., 'assistant')
\*            else if (inputTranscription) onTranscription(.., 'user').
Forwarded(tr) ==
  IF HasOutput(tr) THEN <<"assistant">>
  ELSE IF HasInput(tr) THEN <<"user">>
  ELSE <<>>

\* handleTranscription raises the alert for an assistant text that names a hazard.
Alerts(role, tr) == role = "assistant" /\ Hazard(tr)

\* onmessage: the transcription of the message (tr) is forwarded to the client; an
\* audio payload ("none", "good" or "bad", of duration dur) is handed
\* to playAudio, which runs up to its await of the decode; then, when the message
\* carries interrupted, stopAllAudio() runs (fail = "source": one halt throws).
OnMessage(s, audio, dur, interrupted, fail, now, tr) ==
  /\ micro = <<>>
  /\ chan[s] = "open"
  /\ nMsgs < MaxMsgs
  /\ Elapses(now)
  /\ Fails(s, fail)
  /\ fail # "none" => interrupted
  /\ LET h      == nMsgs + 1
         calls  == Forwarded(tr)
         plays  == audio # "none" /\ PlayGuard(s)
         cursor == IF plays THEN CursorAtEntry(s, now) ELSE nextStartTime[s]
         queued == [segs EXCEPT ![h] =
                      IF plays
                        THEN [sess |-> s, st |-> "decoding", dur |-> dur,
                              ok |-> (audio = "good"), start |-> -1]
                        ELSE [NoSeg EXCEPT !.sess = s, !.st = "unplayed"]]
     IN
       /\ nMsgs' = h
       /\ heard' = heard \o [i \in 1..Len(calls) |-> <<h, calls[i]>>]
       /\ IF \E i \in 1..Len(calls) : Alerts(calls[i], tr)
            THEN /\ safetyAlert' = h
                 /\ alertTimers' = Append(alertTimers, h)
            ELSE UNCHANGED <<safetyAlert, alertTimers>>
       /\ IF interrupted
            THEN /\ segs' = [x \in MsgIds |->
                               IF x = h THEN queued[h] ELSE HaltAll(s, FailedHandle(s, fail))[x]]
                 /\ sources' = [sources EXCEPT ![s] = {}]
                 /\ nextStartTime' = [nextStartTime EXCEPT ![s] = ResetCursor(s)]
                 /\ lastEnd' = [lastEnd EXCEPT ![s] = -1]
                 /\ cut' = [cut EXCEPT ![s] = TRUE]
                 /\ stale' = stale \cup {x \in MsgIds : queued[x].sess = s
                                                        /\ queued[x].st = "decoding"}
            ELSE /\ segs' = queued
                 /\ nextStartTime' = [nextStartTime EXCEPT ![s] = cursor]
                 /\ UNCHANGED <<sources, lastEnd, cut, stale>>
  /\ UNCHANGED <<apiKey, status, error, sessionRef, created, isStopping, inputAudioContext, outputAudioContext, activeStream,
                 activeSession, sessionPromise, frameInterval, pc, inputCtxState,
                 outputCtxState, tracks, chan, closeCalled, promise, thenReg, audioOn,
                 frames, micro, sent, nAudio, opened>>

\* Mutant: playAudio that does not check the session again after its await.
ScheduleUnguarded(s) == TRUE

\* The check of playAudio after its await.
ScheduleGuard(s) == ~isStopping[s] /\ outputCtxState[s] # "closed"

\* decodeAudioData (./audio-utils) settles the promise playAudio awaits after a
\* latency that may vary from payload to payload.
DecodeSettles(h) == segs[h].st = "decoding"

\* Mutant: a failed decode that is not noticed.
DecodeThrowsNever(h) == FALSE

\* try { ... await decodeAudioData(decode(base64), ...) ... } catch (e) { warn }:
\* the decode of a malformed payload throws into the catch of playAudio.
DecodeThrows(h) == ~segs[h].ok

\* playAudio resumes after the decode: a failed decode is caught; otherwise the
\* handle is created, started at nextStartTime and added to sources.
DecodeDone(h, now) ==
  /\ micro = <<>>
  /\ DecodeSettles(h)
  /\ Elapses(now)
  /\ stale' = stale \ {h}
  /\ LET s == segs[h].sess IN
       /\ IF DecodeThrows(h)
            THEN /\ segs' = [segs EXCEPT ![h] = Done(h, "failed")]
                 /\ UNCHANGED <<sources, nextStartTime, lastEnd, cut>>
            ELSE IF ~ScheduleGuard(s)
              THEN /\ segs' = [segs EXCEPT ![h] = Done(h, "dropped")]
                   /\ UNCHANGED <<sources, nextStartTime, lastEnd, cut>>
              ELSE /\ segs' = [segs EXCEPT ![h].st = "live", ![h].start = nextStartTime[s]]
                   /\ nextStartTime' = [nextStartTime EXCEPT ![s] = @ + segs[h].dur]
                   /\ sources' = [sources EXCEPT ![s] = @ \cup {h}]
                   /\ lastEnd' = [lastEnd EXCEPT ![s] = nextStartTime[s] + segs[h].dur]
                   /\ cut' = [cut EXCEPT ![s] = FALSE]
  /\ UNCHANGED <<appVars, isStopping, inputAudioContext, outputAudioContext, activeStream,
                 activeSession, sessionPromise, frameInterval, pc, inputCtxState,
                 outputCtxState, tracks, chan, closeCalled, promise, thenReg, audioOn,
                 frames, micro, sent, nMsgs, nAudio, opened>>

\* The 'ended' listener of a handle whose playback is over: sources.delete(source).
SourceEnded(h, now) ==
  /\ micro = <<>>
  /\ segs[h].st = "live"
  /\ Elapses(now)
  /\ now >= segs[h].start + segs[h].dur
  /\ segs' = [segs EXCEPT ![h] = Done(h, "ended")]
  /\ sources' = [sources EXCEPT ![segs[h].sess] = @ \ {h}]
  /\ UNCHANGED <<appVars, isStopping, inputAudioContext, outputAudioContext, activeStream,
                 activeSession, sessionPromise, frameInterval, nextStartTime, pc,
                 inputCtxState, outputCtxState, tracks, chan, closeCalled, promise,
                 thenReg, audioOn, frames, micro, sent, nMsgs, nAudio, histVars>>

\* The timer an alert started fires: setSafetyAlert(null).  Timers of one delay
\* fire in the order they were started.
AlertTimeout ==
  /\ micro = <<>>
  /\ alertTimers # <<>>
  /\ safetyAlert' = 0
  /\ alertTimers' = Tail(alertTimers)
  /\ UNCHANGED <<apiKey, status, error, sessionRef, created, heard, fieldVars, worldVars,
                 histVars>>

\* ----------------------------------------------------------- capture
\* Mutant: capture callbacks that do not look at the stopping flag.
CaptureUnguarded(s) == TRUE

\* The first line of the capture callbacks: if (this.isStopping) return.
CaptureGuard(s) == ~isStopping[s]

\* onaudioprocess: one window is encoded and its send is queued on sessionPromise.
AudioProcess(s) ==
  /\ micro = <<>>
  /\ audioOn[s]
  /\ nAudio < MaxAudio
  /\ nAudio' = nAudio + 1
  /\ micro' = IF CaptureGuard(s) /\ sessionPromise[s]
                THEN <<<<"sendAudio", s, nAudio + 1>>>> ELSE <<>>
  /\ UNCHANGED <<appVars, fieldVars, pc, inputCtxState, outputCtxState, tracks, chan,
                 closeCalled, promise, thenReg, audioOn, segs, frames, sent, clock, nMsgs,
                 histVars>>

FreeTicks == {k \in TickIds : frames[k].st = "none"}

\* The interval callback: the frame is drawn and canvas.toBlob is started.
VideoTick(s) ==
  /\ micro = <<>>
  /\ frameInterval[s]
  /\ FreeTicks # {}
  /\ LET k == CHOOSE x \in FreeTicks : \A y \in FreeTicks : x <= y IN
       frames' = [frames EXCEPT ![k] =
                    [sess |-> s, st |-> IF CaptureGuard(s) THEN "toBlob" ELSE "noop"]]
  /\ UNCHANGED <<appVars, fieldVars, pc, inputCtxState, outputCtxState, tracks, chan,
                 closeCalled, promise, thenReg, audioOn, segs, micro, sent, clock, nMsgs,
                 nAudio, histVars>>

\* The toBlob callback: if (blob && !this.isStopping) a FileReader is started.
ToBlobDone(k, blob) ==
  /\ micro = <<>>
  /\ frames[k].st = "toBlob"
  /\ frames' = [frames EXCEPT ![k].st =
                  IF ~blob THEN "skipped"
                  ELSE IF CaptureGuard(frames[k].sess) THEN "reading" ELSE "dropped"]
  /\ UNCHANGED <<appVars, fieldVars, pc, inputCtxState, outputCtxState, tracks, chan,
                 closeCalled, promise, thenReg, audioOn, segs, micro, sent, clock, nMsgs,
                 nAudio, histVars>>

\* reader.onloadend: if (!this.isStopping) the send is queued on sessionPromise.
LoadEnd(k) ==
  /\ micro = <<>>
  /\ frames[k].st = "reading"
  /\ LET s == frames[k].sess
         go == CaptureGuard(s) /\ sessionPromise[s]
     IN /\ frames' = [frames EXCEPT ![k].st = IF go THEN "queued" ELSE "dropped"]
        /\ micro' = IF go THEN <<<<"sendVideo", s, k>>>> ELSE <<>>
  /\ UNCHANGED <<appVars, fieldVars, pc, inputCtxState, outputCtxState, tracks, chan,
                 closeCalled, promise, thenReg, audioOn, segs, sent, clock, nMsgs,
                 nAudio, histVars>>

\* ------------------------------------------------------------ microtasks
\* session.sendRealtimeInput({ media: pcmBlob })
SendAudio ==
  /\ micro # <<>>
  /\ Head(micro)[1] = "sendAudio"
  /\ LET s == Head(micro)[2] IN
       /\ sent' = [sent EXCEPT ![s] = Append(@, <<"audio", Head(micro)[3]>>)]
  /\ micro' = Tail(micro)
  /\ UNCHANGED <<appVars, fieldVars, pc, inputCtxState, outputCtxState, tracks, chan,
                 closeCalled, promise, thenReg, audioOn, segs, frames, clock, nMsgs,
                 nAudio, histVars>>

\* session.sendRealtimeInput({ media: { data, mimeType: 'image/jpeg' } })
SendVideo ==
  /\ micro # <<>>
  /\ Head(micro)[1] = "sendVideo"
  /\ LET s == Head(micro)[2]
         k == Head(micro)[3]
     IN /\ sent' = [sent EXCEPT ![s] = Append(@, <<"video", k>>)]
        /\ frames' = [frames EXCEPT ![k].st = "sent"]
  /\ micro' = Tail(micro)
  /\ UNCHANGED <<appVars, fieldVars, pc, inputCtxState, outputCtxState, tracks, chan,
                 closeCalled, promise, thenReg, audioOn, segs, clock, nMsgs, nAudio,
                 histVars>>

\* startAudioStreaming returns at once when the capture context is gone or the
\* session is stopping.
AudioStarts(s) == inputAudioContext[s] /\ ~isStopping[s]

\* startVideoStreaming installs the timer when the canvas gives a 2d context.
VideoStarts(s, ctx2d) == ctx2d

\* The reaction onopen registered: activeSession = session; both pipelines start.
OpenThen(ctx2d) ==
  /\ micro # <<>>
  /\ Head(micro)[1] = "openThen"
  /\ LET s == Head(micro)[2] IN
       /\ activeSession' = [activeSession EXCEPT ![s] = TRUE]
       /\ audioOn' = [audioOn EXCEPT ![s] = AudioStarts(s)]
       /\ frameInterval' = [frameInterval EXCEPT ![s] = VideoStarts(s, ctx2d)]
  /\ micro' = Tail(micro)
  /\ UNCHANGED <<appVars, isStopping, inputAudioContext, outputAudioContext, activeStream,
                 sessionPromise, sources, nextStartTime, pc, inputCtxState,
                 outputCtxState, tracks, chan, closeCalled, promise, thenReg, segs,
                 frames, sent, clock, nMsgs, nAudio, histVars>>

\* ------------------------------------------------------- specifications
\* F: the teardown steps that may throw; C: whether the canvas gives a 2d context;
\* T: the instants the output clock shows; A: the audio payloads of a message.
Taps(F) ==
  \/ HandleStartNoAuth
  \/ HandleStart
  \/ \E fail \in F : HandleStop(fail)

\* One session object, which its owner may stop at any time.
Owner(F) ==
  \/ FirstStart
  \/ \E fail \in F : HandleStop(fail)
  \/ \E s \in Sessions, fail \in F : StopCall(s, fail)

Starting ==
  \/ \E s \in Sessions : MediaGranted(s)
  \/ \E s \in Sessions : PlayResolved(s)
  \/ \E s \in Sessions : OnOpen(s)

StartFailing ==
  \/ \E s \in Sessions : MediaDenied(s)
  \/ \E s \in Sessions : PlayRejected(s)
  \/ \E s \in Sessions : ConnectRejected(s)
  \/ \E s \in Sessions : OnError(s)

Closing(F) == \E s \in Sessions, fail \in F : OnClose(s, fail)

Opened(C) == \E ctx2d \in C : OpenThen(ctx2d)

\* The connect promise settles whenever the library settles it.
Settles == \E s \in Sessions : ConnectResolved(s)

Capture ==
  \/ \E s \in Sessions : AudioProcess(s)
  \/ \E s \in Sessions : VideoTick(s)
  \/ \E k \in TickIds, blob \in BOOLEAN : ToBlobDone(k, blob)
  \/ \E k \in TickIds : LoadEnd(k)
  \/ SendAudio
  \/ SendVideo

\* X: the transcriptions a message may carry.
Messages(T, A, X) ==
  \E s \in Sessions, audio \in A, interrupted \in BOOLEAN,
     fail \in {"none", "source"}, now \in T, tr \in X :
     \E dur \in IF audio = "good" THEN Durations ELSE {1} :
       OnMessage(s, audio, dur, interrupted, fail, now, tr)

Playback(T) ==
  \/ \E h \in MsgIds, now \in T : DecodeDone(h, now)
  \/ \E h \in MsgIds, now \in T : SourceEnded(h, now)

\* The client: every tap, every session, every event.
Next ==
  \/ Taps(FailSteps) \/ Starting \/ StartFailing \/ Closing(FailSteps)
  \/ Opened(BOOLEAN) \/ Settles \/ Capture
  \/ Messages(0..MaxClock, {"none", "good", "bad"}, Transcripts) \/ Playback(0..MaxClock)
  \/ AlertTimeout

Spec == Init /\ [][Next]_vars

\* The client with its sessions and their capture pipelines, no inbound media.
\* The connect promise is resolved in the turn of the open acknowledgment, before
\* any other event, as the @google/genai client does.
Settling == \E s \in Sessions : opened[s] /\ promise[s] = "pending"

SettlesAtOpen == \E s \in Sessions : opened[s] /\ ConnectResolved(s)

\* No connect promise is waiting to be resolved in the current turn.
Calm == ~Settling

NextApp ==
  \/ SettlesAtOpen
  \/ Calm /\ HandleStartNoAuth
  \/ Calm /\ HandleStart
  \/ \E fail \in FailSteps : Calm /\ HandleStop(fail)
  \/ \E s \in Sessions : Calm /\ MediaGranted(s)
  \/ \E s \in Sessions : Calm /\ PlayResolved(s)
  \/ \E s \in Sessions : Calm /\ OnOpen(s)
  \/ \E s \in Sessions : Calm /\ MediaDenied(s)
  \/ \E s \in Sessions : Calm /\ PlayRejected(s)
  \/ \E s \in Sessions : Calm /\ ConnectRejected(s)
  \/ \E s \in Sessions : Calm /\ OnError(s)
  \/ \E s \in Sessions, fail \in FailSteps : Calm /\ OnClose(s, fail)
  \/ \E ctx2d \in BOOLEAN : Calm /\ OpenThen(ctx2d)
  \/ \E s \in Sessions : Calm /\ AudioProcess(s)
  \/ \E s \in Sessions : Calm /\ VideoTick(s)
  \/ \E k \in TickIds, blob \in BOOLEAN : Calm /\ ToBlobDone(k, blob)
  \/ \E k \in TickIds : Calm /\ LoadEnd(k)
  \/ Calm /\ SendAudio
  \/ Calm /\ SendVideo

SpecApp == Init /\ [][NextApp]_vars

\* One session and its capture pipelines.
NextCapture ==
  \/ HandleStartNoAuth \/ Owner(FailSteps) \/ Starting \/ StartFailing
  \/ Closing(FailSteps) \/ Opened(BOOLEAN) \/ Settles \/ Capture

SpecCapture == Init /\ [][NextCapture]_vars

\* One session that connects, and its playback scheduler: stop() itself never
\* throws and every payload decodes.
NextPlay ==
  \/ Owner({"none"}) \/ Starting \/ Closing({"none"}) \/ Opened({TRUE}) \/ Settles
  \/ Messages(0..MaxClock, {"none", "good"}, {"none"}) \/ Playback(0..MaxClock)

SpecPlay == Init /\ [][NextPlay]_vars

\* One session that connects and is torn down with a failing step, with segments
\* decoding or playing; the output clock stands still.
NextTeardown ==
  \/ Owner(FailSteps) \/ Starting \/ Closing(FailSteps) \/ Opened({TRUE}) \/ Settles
  \/ (\E s \in Sessions, dur \in Durations : OnMessage(s, "good", dur, FALSE, "none", 0, "none"))
  \/ (\E h \in MsgIds : DecodeDone(h, 0))

SpecTeardown == Init /\ [][NextTeardown]_vars

\* One session that connects and plays payloads of which some do not decode; no
\* message interrupts.
NextDecode ==
  \/ Owner({"none"}) \/ Starting \/ Closing({"none"}) \/ Opened({TRUE}) \/ Settles
  \/ (\E s \in Sessions, audio \in {"good", "bad"}, now \in 0..MaxClock :
        OnMessage(s, audio, 1, FALSE, "none", now, "none"))
  \/ Playback(0..MaxClock)

SpecDecode == Init /\ [][NextDecode]_vars

\* One session that connects and the transcriptions it forwards to the client.
NextTranscript ==
  \/ Owner({"none"}) \/ Starting \/ Closing({"none"}) \/ Opened({TRUE}) \/ Settles
  \/ Messages({0}, {"none"}, Transcripts) \/ AlertTimeout

SpecTranscript == Init /\ [][NextTranscript]_vars

\* ================================================================ claims
\* Every field stop() unsets is unset.
Released(s) ==
  /\ ~frameInterval[s]
  /\ ~inputAudioContext[s]
  /\ ~outputAudioContext[s]
  /\ ~activeStream[s]
  /\ ~activeSession[s]
  /\ ~sessionPromise[s]
  /\ sources[s] = {}
  /\ nextStartTime[s] = 0

\* Nothing of session s is held any more: timer, playback, contexts, tracks, channel.
TornDown(s) ==
  /\ Released(s)
  /\ \A h \in MsgIds : segs[h].sess = s => segs[h].st # "live"
  /\ inputCtxState[s] # "running"
  /\ outputCtxState[s] # "running"
  /\ \A t \in Tracks : tracks[s][t] # "live"
  /\ chan[s] \in {"connecting", "open", "erred"} => closeCalled[s] # "no"

\* The step calls stop() on session s.
StopCalledOn(s) ==
  \/ \E fail \in FailSteps : OnClose(s, fail)
  \/ \E fail \in FailSteps : StopCall(s, fail)
  \/ sessionRef = s /\ \E fail \in FailSteps : HandleStop(fail)

\* The step is a call of stop() on s that passes the stopping flag's guard.
ActingStop(s) == ~isStopping[s] /\ isStopping'[s]

\* The step resumes playAudio after its decode and creates the handle of h.
Scheduled(h) == segs[h].st = "decoding" /\ segs'[h].st = "live"

\* The step delivers a message that carries interrupted = true to s.
InterruptedOn(s) ==
  /\ nMsgs' = nMsgs + 1
  /\ chan[s] = "open"
  /\ cut'[s]
  /\ \E audio \in {"none", "good", "bad"}, dur \in Durations, fail \in {"none", "source"},
        tr \in Transcripts :
          OnMessage(s, audio, dur, TRUE, fail, clock', tr)

\* C1: no encoded audio chunk and no video frame is sent on the channel once the
\* stopping flag is set, whatever capture callback, toBlob callback, onloadend or
\* promise reaction was in flight when stop() ran.
C1_NoSendWhileStopping ==
  [][\A s \in Sessions : sent'[s] # sent[s] => ~isStopping[s]]_vars

\* C1 witness: the session sent media, stop() ran while a frame was between its
\* tick and its send, and the frame was dropped.
C1_Witness ==
  \E k \in TickIds :
    /\ frames[k].st = "dropped"
    /\ isStopping[frames[k].sess]
    /\ sent[frames[k].sess] # <<>>

\* C2: every call of stop() leaves the session released (timer, contexts, stream,
\* channel handle and sessionPromise unset, no live handle, cursor 0), and a call
\* on a session that is already stopping changes nothing.
C2_StopIdempotent ==
  [][\A s \in Sessions : StopCalledOn(s) =>
        /\ Released(s)'
        /\ isStopping[s] => UNCHANGED <<fieldVars, inputCtxState, outputCtxState,
                                        tracks, closeCalled, segs>>]_vars

\* C3: a remote error event sets the status to ERROR, surfaces an error and tears
\* the session down.
C3_ErrorTearsDown ==
  [][\A s \in Sessions : OnError(s) =>
        /\ status' = "ERROR"
        /\ error' # ""
        /\ TornDown(s)']_vars

\* C4: whenever the client creates a session, every session it created before
\* has been torn down by stop().
C4_OneLiveSession ==
  [][HandleStart => \A s \in 1..created : isStopping[s] /\ TornDown(s)]_vars

\* C5: a capture callback is installed, the video timer runs, a frame is captured
\* or media is sent only in a session whose onopen has run (which reports ACTIVE).
C5_CaptureAfterOpen ==
  \A s \in Sessions :
    (\/ audioOn[s]
     \/ frameInterval[s]
     \/ sent[s] # <<>>
     \/ \E k \in TickIds : frames[k].sess = s) => opened[s]

\* C5 witness: an opened session with both pipelines installed that has sent media.
C5_Witness ==
  \E s \in Sessions : opened[s] /\ audioOn[s] /\ frameInterval[s] /\ sent[s] # <<>>

\* C6: a remote close event reports IDLE and leaves the session stopping with every
\* resource handle unset.
C6_CloseTearsDown ==
  [][\A s \in Sessions : (\E fail \in FailSteps : OnClose(s, fail)) =>
        /\ status' = "IDLE"
        /\ isStopping'[s]
        /\ Released(s)']_vars

\* C7: a segment scheduled after another, with no halt in between, starts no
\* earlier than the other ends, and exactly when it ends if the output clock has
\* not passed that end when the segment is scheduled.
C7_NoOverlapGapless ==
  [][\A h \in MsgIds : Scheduled(h) =>
        LET s == segs[h].sess IN
          lastEnd[s] >= 0 =>
            /\ segs'[h].start >= lastEnd[s]
            /\ clock' <= lastEnd[s] => segs'[h].start = lastEnd[s]]_vars

\* C7 witness: two live handles of a session, the second starting where the first ends.
C7_Witness ==
  \E h1, h2 \in MsgIds :
    /\ h1 # h2
    /\ segs[h1].st = "live" /\ segs[h2].st = "live"
    /\ segs[h1].sess = segs[h2].sess
    /\ segs[h2].start = segs[h1].start + segs[h1].dur

\* C8: a message with interrupted = true halts every live handle (one failing halt
\* does not keep the others alive), empties the live-handle set, resets
\* nextStartTime to 0 and leaves the status alone; the next handle scheduled
\* starts no later than the output clock shows then.
C8_Interrupt ==
  [][/\ \A s \in Sessions : InterruptedOn(s) =>
          /\ \A h \in sources[s] : segs'[h].st \in {"halted", "haltFailed"}
          /\ Cardinality({h \in sources[s] : segs'[h].st = "haltFailed"}) <= 1
          /\ sources'[s] = {}
          /\ nextStartTime'[s] = 0
          /\ status' = status
     /\ \A h \in MsgIds : Scheduled(h) /\ cut[segs[h].sess] => segs'[h].start <= clock'
    ]_vars

\* C8 witness: an interruption halted two handles, one of whose halts threw, and
\* the next handle has been scheduled.
C8_Witness ==
  \E h1, h2, h3 \in MsgIds :
    /\ segs[h1].st = "haltFailed" /\ segs[h2].st = "halted" /\ segs[h3].st = "live"
    /\ segs[h1].sess = segs[h2].sess /\ segs[h2].sess = segs[h3].sess
    /\ segs[h3].start <= clock

\* C9: when the connect promise rejects, an error is surfaced and the status
\* becomes ERROR.
C9_ConnectFailureSurfaced ==
  [][\A s \in Sessions : ConnectRejected(s) => status' = "ERROR" /\ error' # ""]_vars

\* C10: a call of stop() that acts makes every teardown call on what the session
\* holds, whichever single call throws, unsets every field and surfaces nothing.
C10_TeardownFaultTolerant ==
  [][\A s \in Sessions : ActingStop(s) =>
        /\ \A h \in sources[s] : segs'[h].st \in {"halted", "haltFailed"}
        /\ Cardinality({h \in sources[s] : segs'[h].st = "haltFailed"}) <= 1
        /\ (inputAudioContext[s] /\ inputCtxState[s] = "running")
              => inputCtxState'[s] \in {"closed", "closeFailed"}
        /\ (outputAudioContext[s] /\ outputCtxState[s] = "running")
              => outputCtxState'[s] \in {"closed", "closeFailed"}
        /\ activeStream[s] =>
              /\ \A t \in Tracks : tracks'[s][t] \in {"stopped", "stopFailed"}
              /\ \E t \in Tracks : tracks'[s][t] = "stopped"
        /\ activeSession[s] => closeCalled'[s] \in {"ok", "threw"}
        /\ Released(s)'
        /\ error' = error
        /\ status' = "ERROR" => status = "ERROR"]_vars

\* C10 witness: stop() ran with playing handles, a stream and a channel; closing the
\* output context threw, and the tracks were stopped and the channel closed after it.
C10_Witness ==
  \E s \in Sessions :
    /\ isStopping[s]
    /\ outputCtxState[s] = "closeFailed"
    /\ \A t \in Tracks : tracks[s][t] = "stopped"
    /\ closeCalled[s] = "ok"
    /\ \E h \in MsgIds : segs[h].sess = s /\ segs[h].st = "halted"

\* The roles of the transcriptions a message carries.
Carried(tr) ==
  {r \in {"assistant", "user"} : (r = "assistant" /\ HasOutput(tr)) \/ (r = "user" /\ HasInput(tr))}

\* The step delivers a message with transcription tr to session s.
Delivers(s, tr) ==
  /\ nMsgs' = nMsgs + 1
  /\ \E audio \in {"none", "good", "bad"}, dur \in Durations, interrupted \in BOOLEAN,
        fail \in {"none", "source"} :
          OnMessage(s, audio, dur, interrupted, fail, clock', tr)

\* The onTranscription calls the step made.
NewCalls == [i \in 1..(Len(heard') - Len(heard)) |-> heard'[Len(heard) + i]]

\* C11: the step that delivers a message calls onTranscription exactly once for
\* each transcription the message carries, with that message's text and the role
\* of the field, also when the message carries both fields.
C11_TranscriptsForwarded ==
  [][\A s \in Sessions, tr \in Transcripts : Delivers(s, tr) =>
        \A r \in {"assistant", "user"} :
          Cardinality({i \in DOMAIN NewCalls : NewCalls[i] = <<nMsgs', r>>})
            = (IF r \in Carried(tr) THEN 1 ELSE 0)]_vars

\* C12: when the decode of a malformed payload fails, the chunk is dropped and no
\* handle is created; the live-handle set, the cursor, the session's fields, the
\* status and the error shown are unchanged, so later payloads are played as before.
C12_DecodeFailureLocal ==
  [][\A h \in MsgIds :
        (segs[h].st = "decoding" /\ ~segs[h].ok /\ segs'[h] # segs[h]) =>
          /\ segs'[h].st = "failed"
          /\ \A x \in MsgIds \ {h} : segs'[x] = segs[x]
          /\ UNCHANGED <<fieldVars, outputCtxState, chan, status, error>>]_vars

\* C12 witness: a payload failed to decode and a later payload of the session plays.
C12_Witness ==
  \E h1, h2 \in MsgIds :
    /\ h1 < h2
    /\ segs[h1].st = "failed" /\ segs[h2].st = "live"
    /\ segs[h1].sess = segs[h2].sess

\* C13: when getUserMedia fails, the status becomes ERROR and the session ends
\* released: both audio contexts are closed or unset and no stream, channel or
\* timer is held.
C13_FailedStartReleased ==
  [][\A s \in Sessions : MediaDenied(s) =>
        /\ status' = "ERROR"
        /\ ~inputAudioContext'[s] \/ inputCtxState'[s] = "closed"
        /\ ~outputAudioContext'[s] \/ outputCtxState'[s] = "closed"
        /\ ~activeStream'[s]
        /\ ~activeSession'[s]
        /\ ~sessionPromise'[s]
        /\ ~frameInterval'[s]]_vars

\* The segment of message x has been given a playback handle.
WasScheduled(x) == segs[x].st \in {"live", "ended", "halted", "haltFailed"}

C15_NoEffectAfterStop ==
  [][\A s \in Sessions : isStopping[s] =>
        /\ ~activeSession'[s]
        /\ ~frameInterval'[s]
        /\ audioOn'[s] => audioOn[s]
        /\ OnOpen(s) => status' = status]_vars

\* C16: a handle is started at max(nextStartTime, output clock), the clock being
\* the one shown when the handle is created, so never before that clock, and
\* nextStartTime becomes that start plus the segment's duration.
C16_StartAtCreationClock ==
  [][\A h \in MsgIds : Scheduled(h) =>
        LET s == segs[h].sess IN
          /\ segs'[h].start = Max(nextStartTime[s], clock')
          /\ segs'[h].start >= clock'
          /\ nextStartTime'[s] = segs'[h].start + segs[h].dur]_vars

\* The live-handle set of every session holds exactly its playing handles, and the
\* set of a session whose stopping flag is set is empty.
NoOrphan ==
  /\ \A h \in MsgIds : segs[h].st = "live" <=> (segs[h].sess # 0 /\ h \in sources[segs[h].sess])
  /\ \A s \in Sessions : isStopping[s] => sources[s] = {}

\* C17: a decode that completes after the stopping flag is set or the output
\* context is closed creates no handle; a handle leaves the live set only by its
\* 'ended' event, an interruption or the teardown; the live set holds exactly the
\* playing handles and is empty, for good, once stop() has run.
C17_NoOrphanHandle ==
  [][/\ NoOrphan'
     /\ \A h \in MsgIds : Scheduled(h) =>
           ~isStopping[segs[h].sess] /\ outputCtxState[segs[h].sess] # "closed"
     /\ \A s \in Sessions : \A h \in sources[s] \ sources'[s] :
           segs'[h].st \in {"ended", "halted", "haltFailed"}
     /\ \A s \in Sessions : (isStopping[s] /\ isStopping'[s]) => sources'[s] = {}]_vars

\* C17 witness: stop() halted a playing handle, and a decode that was in flight
\* completed after it without creating a handle.
C17_Witness ==
  \E s \in Sessions, h1, h2 \in MsgIds :
    /\ isStopping[s]
    /\ segs[h1].sess = s /\ segs[h1].st = "halted"
    /\ segs[h2].sess = s /\ segs[h2].st = "dropped"
    /\ sources[s] = {}

\* The ticks whose frames session s has sent, in the order of the sends.
FramesSent(s) == SelectSeq(sent[s], LAMBDA m : m[1] = "video")

\* C18: the frames a session has sent are in the order of their ticks, and a tick
\* whose toBlob gives no blob sends no frame and changes neither error nor status.
C18_FramesInTickOrder ==
  [][/\ \A s \in Sessions : \A i, j \in DOMAIN FramesSent(s)' :
           i < j => FramesSent(s)'[i][2] < FramesSent(s)'[j][2]
     /\ \A k \in TickIds : ToBlobDone(k, FALSE) =>
           /\ frames'[k].st = "skipped"
           /\ UNCHANGED <<sent, micro, error, status>>]_vars

\* C19: the status moves along IDLE/ERROR -> CONNECTING -> ACTIVE -> {IDLE, ERROR}:
\* ACTIVE is entered only from CONNECTING, never from IDLE or ERROR.
C19_ActiveOnlyFromConnecting ==
  [][(status' = "ACTIVE" /\ status # "ACTIVE") => status = "CONNECTING"]_vars

\* C20: the segment of a message that arrived before an interruption of its
\* session, or in the message that carried it, is not started after the
\* interruption: a decode pending when the interruption ran creates no handle.
C20_NoStartAfterInterrupt ==
  [][\A h \in MsgIds : Scheduled(h) => h \notin stale]_vars

\* C21: once stop() has run on a session, a message that session's channel still
\* delivers makes no onTranscription call and raises no safety alert; this is
\* stated for the deliveries on a channel that stop() did not close, the case in
\* which stop() ran before the channel handle was set.
C21_NoTranscriptAfterStop ==
  [][\A s \in Sessions, tr \in Transcripts :
        (isStopping[s] /\ closeCalled[s] # "ok" /\ Delivers(s, tr)) =>
            /\ heard' = heard
            /\ safetyAlert' = safetyAlert]_vars

\* C22: a displayed safety alert is removed only by a newer alert, by the user's
\* stop, or by its own clear-timer: the clear-timer of an earlier alert, firing
\* while a later alert is displayed and that alert's timer is still pending,
\* leaves the later alert displayed.
C22_AlertKeptFullTime ==
  [][(safetyAlert # 0 /\ safetyAlert' # safetyAlert) =>
        \/ safetyAlert' > safetyAlert
        \/ \E fail \in FailSteps : HandleStop(fail)
        \/ AlertTimeout /\ Head(alertTimers) = safetyAlert]_vars

====
